---- MODULE Spec2Model ----
(***************************************************************************)
(* A model of src/index.js: a caching reverse proxy (fetchFromApi and the  *)
(* six region-scoped routes), the region validator (isValidRegion) and the *)
(* paginated aggregator (fetchAllServers / fetchUserDetails / listpanel).  *)
(*                                                                         *)
(* JavaScript strings are sequences of tokens.  A token is one character   *)
(* ("I", "n", "-"), or a whole literal of the source where the literal is  *)
(* only ever copied ("account", BASE_URL).  Two characters outside ASCII   *)
(* are written by their code point: "u0131" (dotless i) and "u017F" (long  *)
(* s); "u00DF" is the sharp s.                                             *)
(***************************************************************************)
EXTENDS Integers, Sequences, FiniteSets, TLC

VARIABLES
    cache,      \* the memory-cache table: key -> [value, storedAt, expire]
    now,        \* Date.now(), in milliseconds
    ticks,      \* number of clock advances so far
    nreq,       \* number of inbound requests so far
    pc,         \* per request slot: "idle", "awaiting" (at `await axios.get`), "done"
    rq,         \* per request slot: what the handler computed for the request
    res,        \* per request slot: the response object
    input,      \* isValidRegion checker: the argument
    output,     \* isValidRegion checker: the result
    listing,    \* the panel's server listing: page -> position -> owner's user id
    aggPc,      \* /listpanel: "idle", "page" (awaiting a page), "user"
                \* (awaiting a user lookup), "returned"
    page,       \* fetchAllServers: let page
    hasNextPage,    \* fetchAllServers: let hasNextPage
    allServers,     \* fetchAllServers: let allServers
    servers,    \* fetchAllServers: response.data.data of the current page
    idx,        \* fetchAllServers: position of the for-of loop in servers
    meta,       \* fetchAllServers: response.data.meta.pagination of the current page
    result,     \* what fetchAllServers returned
    panelRes,   \* the response object of /listpanel
    pagesRequested, \* history: the page numbers requested, in order
    lookups,    \* history: per record of allServers, how its user lookup ended
    honest,     \* history: every page so far reported current_page = the page
                \* requested and total_pages = the number of pages of listing
    pageFailed, \* history: a page request failed
    reportedT,  \* history: total_pages as reported for page 1 (-1: not yet)
    truthful,   \* history: every page so far reported current_page = the page
                \* requested and total_pages = reportedT
    iconPc,     \* /api/v1/icon: "idle", "awaiting" (at `await axios.get`), "done"
    iconId,     \* /api/v1/icon: req.query.id
    iconRes,    \* /api/v1/icon: the response object
    statusRes,  \* /status: the response object
    greq,       \* middleware chain: the request (method, path, files of public/)
    gres,       \* middleware chain: who answered, and the status
    kin,        \* cache key checker: two validated requests
    kout        \* cache key checker: their cache keys and upstream URLs

proxyVars == <<cache, now, ticks, nreq, pc, rq, res>>
regionVars == <<input, output>>
aggVars == <<listing, aggPc, page, hasNextPage, allServers, servers, idx, meta,
             result, panelRes, pagesRequested, lookups, honest, pageFailed,
             reportedT, truthful>>
miscVars == <<iconPc, iconId, iconRes, statusRes, greq, gres, kin, kout>>
vars == <<cache, now, ticks, nreq, pc, rq, res, input, output,
          listing, aggPc, page, hasNextPage, allServers, servers, idx, meta,
          result, panelRes, pagesRequested, lookups, honest, pageFailed,
          reportedT, truthful,
          iconPc, iconId, iconRes, statusRes, greq, gres, kin, kout>>

----------------------------------------------------------------------------
(* Bounds *)

MaxSlots == 2       \* request slots that can be in flight together
MaxRequests == 2    \* inbound requests in one behaviour
MaxTicks == 2       \* clock advances in one behaviour
MaxLen == 3         \* length of the strings given to isValidRegion
MaxPages == 2       \* pages of the panel's listing
MaxItems == 2       \* servers on one page of the listing

Slots == 1..MaxSlots

----------------------------------------------------------------------------
(* Constants of the program *)

\* a variant of CACHE_DURATION: one hour
CACHE_DURATION_OneHour == 60 * 60 * 1000

CACHE_DURATION == 24 * 60 * 60 * 1000

ICON_BASE_URL == "https://www.library.freefireinfo.site/icons/"

BASE_URL == "https://free-ff-api-src-5plp.onrender.com/api/v1"

supportedRegions ==
    << <<"I","N","D">>, <<"B","R">>, <<"S","G">>, <<"R","U">>, <<"I","D">>,
       <<"T","W">>, <<"U","S">>, <<"V","N">>, <<"T","H">>, <<"M","E">>,
       <<"P","K">>, <<"C","I","S">>, <<"B","D">> >>

----------------------------------------------------------------------------
(* String.prototype.toUpperCase, Array.prototype.includes/join *)

\* the ASCII letters of the model, lower case and upper case, position by position
LowerLetters ==
    <<"b","c","d","e","g","h","i","k","m","n","p","r","s","t","u","v","w","x">>

UpperLetters ==
    <<"B","C","D","E","G","H","I","K","M","N","P","R","S","T","U","V","W","X">>

\* The upper-case mapping of one character (Unicode SpecialCasing included:
\* the mapping of a character can be longer than one character).
UpperOfChar(c) ==
    IF \E i \in 1..Len(LowerLetters) : LowerLetters[i] = c
    THEN <<UpperLetters[CHOOSE i \in 1..Len(LowerLetters) : LowerLetters[i] = c]>>
    ELSE IF c = "u0131" THEN <<"I">>
    ELSE IF c = "u017F" THEN <<"S">>
    ELSE IF c = "u00DF" THEN <<"S","S">>
    ELSE <<c>>

RECURSIVE toUpperCase(_)
toUpperCase(s) ==
    IF s = <<>> THEN <<>>
    ELSE UpperOfChar(Head(s)) \o toUpperCase(Tail(s))

includes(arr, x) == \E i \in 1..Len(arr) : arr[i] = x

RECURSIVE join(_, _)
join(arr, sep) ==
    IF arr = <<>> THEN <<>>
    ELSE IF Len(arr) = 1 THEN arr[1]
    ELSE arr[1] \o sep \o join(Tail(arr), sep)

----------------------------------------------------------------------------
(* Values of req.query: undefined, a string, or an array of strings        *)
(* (?region=a&region=b).                                                   *)

Undefined == [t |-> "undefined", s |-> <<>>, a |-> <<>>]
Str(s) == [t |-> "string", s |-> s, a |-> <<>>]
Arr(a) == [t |-> "array", s |-> <<>>, a |-> a]

\* a variant of Not: only a missing parameter counts, not an empty one
Not_UndefinedOnly(v) == v.t = "undefined"

\* !v
Not(v) == v.t = "undefined" \/ (v.t = "string" /\ v.s = <<>>)

\* `${v}` of a value that passed the !v test
Interpolate(v) == IF v.t = "array" THEN join(v.a, <<",">>) ELSE v.s

\* region.toUpperCase is a function only on strings
ThrowsTypeError(region) == region.t # "string"

\* a variant of isValidRegion: the list is not consulted
isValidRegion_AnyString(region) == region.s # <<>>

isValidRegion(region) == includes(supportedRegions, toUpperCase(region.s))

----------------------------------------------------------------------------
(* The memory-cache table.  An entry is [value, storedAt, ttl]; it is      *)
(* visible while now < storedAt + ttl and is dropped by the first get      *)
(* that finds it expired.                                                  *)

EmptyCache == [k \in {} |-> 0]

CacheVisible(c, key, t) ==
    key \in DOMAIN c /\ t < c[key].storedAt + c[key].ttl

JsNull == [t |-> "null", text |-> ""]
JsString(text) == [t |-> "string", text |-> text]

\* cache.get(key): the stored value, or null
CacheGet(c, key, t) ==
    IF CacheVisible(c, key, t) THEN JsString(c[key].value) ELSE JsNull

\* the table after cache.get(key)
CacheAfterGet(c, key, t) ==
    IF key \in DOMAIN c /\ ~CacheVisible(c, key, t)
    THEN [k \in DOMAIN c \ {key} |-> c[k]]
    ELSE c

\* the table after cache.put(key, value, ttl)
CachePut(c, key, value, ttl, t) ==
    [k \in DOMAIN c \cup {key} |->
        IF k = key THEN [value |-> value, storedAt |-> t, ttl |-> ttl]
        ELSE c[k]]

\* a variant of Truthy: a cached value never counts
Truthy_Never(x) == x.t = "boolean"

\* if (cachedData)
Truthy(x) == x.t = "string" /\ x.text # ""

----------------------------------------------------------------------------
(* response.data of the upstream: a JavaScript value.  keys is the number  *)
(* of its own enumerable keys, v its content.                              *)

JNull == [t |-> "null", keys |-> 0, v |-> 0]
JEmptyStr == [t |-> "string", keys |-> 0, v |-> 0]
JStrX == [t |-> "string", keys |-> 1, v |-> 0]          \* "x"
JNum(n) == [t |-> "number", keys |-> 0, v |-> n]
JEmptyObj == [t |-> "object", keys |-> 0, v |-> 0]
JEmptyArr == [t |-> "array", keys |-> 0, v |-> 0]
JObj(n) == [t |-> "object", keys |-> 1, v |-> n]        \* {a: n}
JArr(n) == [t |-> "array", keys |-> 1, v |-> n]         \* [n]

UpstreamData ==
    {JNull, JEmptyObj, JEmptyArr, JObj(1), JObj(2)}

\* !response.data
Falsy(d) ==
    \/ d.t = "null"
    \/ d.t = "string" /\ d.keys = 0
    \/ d.t = "number" /\ d.v = 0

\* a variant of ObjectKeysLength: an array counts as having keys
ObjectKeysLength_ArraysNonEmpty(d) == IF d.t = "array" THEN 1 ELSE d.keys

\* Object.keys(response.data).length
ObjectKeysLength(d) == d.keys

\* JSON.stringify(response.data, null, 2)
Stringify(d) ==
    CASE d.t = "null" -> "null"
      [] d.t = "number" -> ToString(d.v)
      [] d.t = "string" -> IF d.keys = 0 THEN "\"\"" ELSE "\"x\""
      [] d.t = "object" ->
            IF d.keys = 0 THEN "{}"
            ELSE "{\n  \"a\": " \o ToString(d.v) \o "\n}"
      [] d.t = "array" ->
            IF d.keys = 0 THEN "[]"
            ELSE "[\n  " \o ToString(d.v) \o "\n]"

\* what `await axios.get(url)` throws: an error with or without a response
AxiosErrors ==
    { [response |-> TRUE, status |-> 404,
       message |-> "Request failed with status code 404"],
      [response |-> FALSE, status |-> 0, message |-> "Network Error"] }

----------------------------------------------------------------------------
(* The response object of express *)

NoBody == [k |-> "none", text |-> "", error |-> <<>>, details |-> ""]
TextBody(text) == [k |-> "text", text |-> text, error |-> <<>>, details |-> ""]
ErrorBody(error) == [k |-> "error", text |-> "", error |-> error, details |-> ""]
ErrorDetailsBody(error, details) ==
    [k |-> "errorDetails", text |-> "", error |-> error, details |-> details]

NewRes == [sent |-> 0, status |-> 200, ctype |-> "", body |-> NoBody]

\* res.status(n)
ResStatus(r, n) == [r EXCEPT !.status = n]

\* res.setHeader('Content-Type', ct)
ResSetContentType(r, ct) == [r EXCEPT !.ctype = ct]

\* res.send(string): the Content-Type defaults to text/html
ResSend(r, text) ==
    [r EXCEPT !.sent = @ + 1,
              !.ctype = IF @ = "" THEN "text/html" ELSE @,
              !.body = TextBody(text)]

\* res.json(obj): the Content-Type defaults to application/json
ResJson(r, obj) ==
    [r EXCEPT !.sent = @ + 1,
              !.ctype = IF @ = "" THEN "application/json" ELSE @,
              !.body = obj]

\* express's default error handler, for an exception thrown by a handler
ResDefaultError(r) ==
    [r EXCEPT !.sent = @ + 1, !.status = 500, !.ctype = "text/html",
              !.body = TextBody("TypeError")]

RateLimitMessage ==
    <<"API limit has been reached. The limit will reset in 1-2 hours.">>

FailedToFetch == <<"Failed to fetch data">>

----------------------------------------------------------------------------
(* The clock *)

Day == 86400000
TimeSteps == {1, Day - 1}

Tick ==
    /\ ticks < MaxTicks
    /\ \E d \in TimeSteps : now' = now + d
    /\ ticks' = ticks + 1
    /\ UNCHANGED <<cache, nreq, pc, rq, res, regionVars, aggVars, miscVars>>

----------------------------------------------------------------------------
(* Inbound requests of the region-scoped routes *)

IND == <<"I","N","D">>

RegionInputs ==
    { Undefined, Str(<<>>), Str(IND), Str(<<"X","X">>),
      Arr(<<IND, <<"B","R">> >>) }

SecondInputs ==
    { Undefined, Str(<<>>), Str(<<"1">>) }

NoSeen == [present |-> FALSE, value |-> "", storedAt |-> 0]
NoError == [response |-> FALSE, status |-> 0, message |-> ""]
NoBefore == [present |-> FALSE, value |-> "", storedAt |-> 0, unexpired |-> FALSE]
NoOutcome == [k |-> "none", data |-> JNull, error |-> NoError, before |-> NoBefore]

\* What a slot remembers of its request.  called, outbound, seen, at and
\* outcome are history: whether fetchFromApi was entered, how many times
\* axios.get was called, the raw table entry under the key and the time when
\* the key was looked up, and what the outbound call produced (with, for a
\* stored body, the raw table entry that cache.put found under the key).
Request(route, region, second, url, cacheKey, called, outbound, seen, at) ==
    [route |-> route, region |-> region, second |-> second, url |-> url,
     cacheKey |-> cacheKey, called |-> called, outbound |-> outbound,
     seen |-> seen, at |-> at, outcome |-> NoOutcome]

IdleRequest ==
    Request("", Undefined, Undefined, <<>>, <<>>, FALSE, 0, NoSeen, 0)

\* A slot keeps a finished request and its response until the next request
\* starts or finishes: f with slot r set to v, the other finished slots cleared.
Settle(f, r, v, idle) ==
    [q \in Slots |-> IF q = r THEN v
                     ELSE IF pc[q] = "awaiting" THEN f[q] ELSE idle]

\* a new request is taken by the first slot that is not awaiting its upstream
FreeSlot(r) ==
    /\ pc[r] # "awaiting"
    /\ \A q \in Slots : q < r => pc[q] = "awaiting"

MissingMessage(paramName) ==
    <<"Please provide both ", "\"region\"", " and ", "\"" \o paramName \o "\"",
      " parameters.">>

UnsupportedMessage(region) ==
    <<"Region ">> \o region.s
        \o <<" is not supported. Supported regions are: ">>
        \o join(supportedRegions, <<", ">>)

UpstreamUrl(route, paramName, region, second) ==
    <<BASE_URL, "/", route, "?region=">> \o Interpolate(region)
        \o <<"&", paramName, "=">> \o Interpolate(second)

\* a variant of CacheKey: the endpoint is left out of the key
CacheKey_NoEndpoint(route, region, second) ==
    Interpolate(region) \o <<"-">> \o Interpolate(second)

\* `<endpoint>-${region}-${second}`
CacheKey(route, region, second) ==
    <<route, "-">> \o Interpolate(region) \o <<"-">> \o Interpolate(second)

\* the handler answers by itself, without calling fetchFromApi
Answer(r, route, region, second, response) ==
    /\ res' = Settle(res, r, response, NewRes)
    /\ rq' = Settle(rq, r,
                Request(route, region, second, <<>>, <<>>, FALSE, 0, NoSeen, now),
                IdleRequest)
    /\ pc' = Settle(pc, r, "done", "idle")
    /\ UNCHANGED cache

\* fetchFromApi(url, res, cacheKey), up to its first await or its return
fetchFromApi(r, route, region, second, url, cacheKey) ==
    LET cachedData == CacheGet(cache, cacheKey, now)
        seen == IF cacheKey \in DOMAIN cache
                THEN [present |-> TRUE, value |-> cache[cacheKey].value,
                      storedAt |-> cache[cacheKey].storedAt]
                ELSE NoSeen
    IN  /\ cache' = CacheAfterGet(cache, cacheKey, now)
        /\ IF Truthy(cachedData)
           THEN /\ res' = Settle(res, r, ResSend(NewRes, cachedData.text), NewRes)
                /\ pc' = Settle(pc, r, "done", "idle")
                /\ rq' = Settle(rq, r,
                            Request(route, region, second, url, cacheKey,
                                    TRUE, 0, seen, now),
                            IdleRequest)
           ELSE /\ res' = Settle(res, r, NewRes, NewRes)
                /\ pc' = Settle(pc, r, "awaiting", "idle")
                /\ rq' = Settle(rq, r,
                            Request(route, region, second, url, cacheKey,
                                    TRUE, 1, seen, now),
                            IdleRequest)

\* the body shared by the six handlers: route and paramName are the literals
\* in which the handlers differ
RegionRoute(r, route, paramName, region, second) ==
    /\ nreq < MaxRequests
    /\ FreeSlot(r)
    /\ nreq' = nreq + 1
    /\ IF Not(region) \/ Not(second)
       THEN Answer(r, route, region, second,
                ResJson(ResStatus(NewRes, 400),
                        ErrorBody(MissingMessage(paramName))))
       ELSE IF ThrowsTypeError(region)
       THEN Answer(r, route, region, second, ResDefaultError(NewRes))
       ELSE IF ~isValidRegion(region)
       THEN Answer(r, route, region, second,
                ResJson(ResStatus(NewRes, 400),
                        ErrorBody(UnsupportedMessage(region))))
       ELSE fetchFromApi(r, route, region, second,
                UpstreamUrl(route, paramName, region, second),
                CacheKey(route, region, second))
    /\ UNCHANGED <<now, ticks, regionVars, aggVars, miscVars>>

account ==
    \E r \in Slots, region \in RegionInputs, uid \in SecondInputs :
        RegionRoute(r, "account", "uid", region, uid)

craftlandProfile ==
    \E r \in Slots, region \in RegionInputs, uid \in SecondInputs :
        RegionRoute(r, "craftlandProfile", "uid", region, uid)

craftlandInfo ==
    \E r \in Slots, region \in RegionInputs, map_code \in SecondInputs :
        RegionRoute(r, "craftlandInfo", "map_code", region, map_code)

playerstats ==
    \E r \in Slots, region \in RegionInputs, uid \in SecondInputs :
        RegionRoute(r, "playerstats", "uid", region, uid)

wishlistitems ==
    \E r \in Slots, region \in RegionInputs, uid \in SecondInputs :
        RegionRoute(r, "wishlistitems", "uid", region, uid)

guildInfo ==
    \E r \in Slots, region \in RegionInputs, guildID \in SecondInputs :
        RegionRoute(r, "guildInfo", "guildID", region, guildID)

----------------------------------------------------------------------------
(* fetchFromApi after `await axios.get(url)` *)

\* the raw table entry under key, as cache.put finds it at time t
EntryBefore(c, key, t) ==
    IF key \in DOMAIN c
    THEN [present |-> TRUE, value |-> c[key].value, storedAt |-> c[key].storedAt,
          unexpired |-> CacheVisible(c, key, t)]
    ELSE NoBefore

\* a variant of StoreFresh: an entry that is still visible is kept
StoreFresh_IfAbsent(c, key, responseData, t) ==
    IF CacheVisible(c, key, t)
    THEN c
    ELSE CachePut(c, key, responseData, CACHE_DURATION, t)

\* cache.put(cacheKey, responseData, CACHE_DURATION)
StoreFresh(c, key, responseData, t) ==
    CachePut(c, key, responseData, CACHE_DURATION, t)

\* the upstream answers with response.data = data
fetchResolved(r, data) ==
    /\ pc[r] = "awaiting"
    /\ IF Falsy(data) \/ ObjectKeysLength(data) = 0
       THEN /\ res' = Settle(res, r,
                        ResJson(ResStatus(res[r], 429),
                                ErrorBody(RateLimitMessage)),
                        NewRes)
            /\ UNCHANGED cache
       ELSE LET responseData == Stringify(data)
            IN  /\ cache' = StoreFresh(cache, rq[r].cacheKey, responseData, now)
                /\ res' = Settle(res, r,
                            ResSend(ResSetContentType(res[r], "application/json"),
                                    responseData),
                            NewRes)
    /\ rq' = Settle(rq, r,
                [rq[r] EXCEPT !.outcome =
                    [k |-> "data", data |-> data, error |-> NoError,
                     before |-> IF Falsy(data) \/ ObjectKeysLength(data) = 0
                                THEN NoBefore
                                ELSE EntryBefore(cache, rq[r].cacheKey, now)]],
                IdleRequest)
    /\ pc' = Settle(pc, r, "done", "idle")
    /\ UNCHANGED <<now, ticks, nreq, regionVars, aggVars, miscVars>>

\* a variant of ErrorStatus: the upstream's status is ignored
ErrorStatus_Always500(error) == 500

\* error.response ? error.response.status : 500
ErrorStatus(error) == IF error.response THEN error.status ELSE 500

\* a variant of fetchRejected: the first failure is followed by a second call
fetchRejected_Retry(r, error) ==
    /\ pc[r] = "awaiting"
    /\ IF rq[r].outbound < 2
       THEN /\ res' = Settle(res, r, res[r], NewRes)
            /\ rq' = Settle(rq, r, [rq[r] EXCEPT !.outbound = @ + 1], IdleRequest)
            /\ pc' = Settle(pc, r, "awaiting", "idle")
       ELSE /\ res' = Settle(res, r,
                        ResJson(ResStatus(res[r], ErrorStatus(error)),
                                ErrorDetailsBody(FailedToFetch, error.message)),
                        NewRes)
            /\ rq' = Settle(rq, r,
                        [rq[r] EXCEPT !.outcome =
                            [k |-> "error", data |-> JNull, error |-> error,
                             before |-> NoBefore]],
                        IdleRequest)
            /\ pc' = Settle(pc, r, "done", "idle")
    /\ UNCHANGED <<cache, now, ticks, nreq, regionVars, aggVars, miscVars>>

\* axios.get throws error: the catch block
fetchRejected(r, error) ==
    /\ pc[r] = "awaiting"
    /\ res' = Settle(res, r,
                ResJson(ResStatus(res[r], ErrorStatus(error)),
                        ErrorDetailsBody(FailedToFetch, error.message)),
                NewRes)
    /\ rq' = Settle(rq, r,
                [rq[r] EXCEPT !.outcome =
                    [k |-> "error", data |-> JNull, error |-> error,
                             before |-> NoBefore]],
                IdleRequest)
    /\ pc' = Settle(pc, r, "done", "idle")
    /\ UNCHANGED <<cache, now, ticks, nreq, regionVars, aggVars, miscVars>>

UpstreamResponds == \E r \in Slots, data \in UpstreamData : fetchResolved(r, data)

UpstreamFails == \E r \in Slots, error \in AxiosErrors : fetchRejected(r, error)

----------------------------------------------------------------------------
(* The panel behind /listpanel.  A server of the listing has the attributes *)
(* id and user; name, description, limits.memory and limits.disk are copied *)
(* into the record exactly as id is and are left out.                       *)

Users == {1, 2}

\* the contents of one page: the owner of the server at each position
PageContents == UNION { [1..k -> Users] : k \in 0..MaxItems }

Listings == UNION { [1..n -> PageContents] : n \in 1..MaxPages }

\* server.attributes of the server at position i of page p
ServerAttributes(p, i) == [id |-> 10 * p + i, user |-> listing[p][i]]

\* response.data.data of GET /api/application/servers?page=p
PageData(p) ==
    IF p \in 1..Len(listing)
    THEN [i \in 1..Len(listing[p]) |-> ServerAttributes(p, i)]
    ELSE <<>>

\* response.data.attributes of GET /api/application/users/<userId>
UserAttributes(userId) ==
    [username |-> "user" \o ToString(userId),
     email |-> "user" \o ToString(userId) \o "@example.com"]

\* what the panel may report as pagination
Paginations == [current_page : 0..MaxPages, total_pages : 0..MaxPages]

\* the loop is followed up to this page number
PageCap == MaxPages + 1

\* a variant of fetchUserDetails: the catch returns an object without the fields
fetchUserDetails_NoPlaceholder(userId, ok) ==
    IF ok THEN UserAttributes(userId)
    ELSE [username |-> "undefined", email |-> "undefined"]

\* fetchUserDetails(userId): the attributes, or the placeholder from the catch
fetchUserDetails(userId, ok) ==
    IF ok THEN UserAttributes(userId)
    ELSE [username |-> "Unknown", email |-> "Unknown"]

\* the object pushed on allServers
ServerRecord(s, userDetails) ==
    [id |-> s.id, user_id |-> s.user,
     username |-> userDetails.username, email |-> userDetails.email]

RECURSIVE StringifyServers(_)
\* JSON.stringify(allServers, null, 2)
StringifyServers(list) ==
    IF list = <<>> THEN ""
    ELSE "{id: " \o ToString(list[1].id)
            \o ", user_id: " \o ToString(list[1].user_id)
            \o ", username: " \o list[1].username
            \o ", email: " \o list[1].email \o "}"
            \o StringifyServers(Tail(list))

NoResult == [k |-> "none", list |-> <<>>]
NoPagination == [current_page |-> 0, total_pages |-> 0]

AggIdle ==
    /\ aggPc = "idle"
    /\ page = 0
    /\ hasNextPage = FALSE
    /\ allServers = <<>>
    /\ servers = <<>>
    /\ idx = 0
    /\ meta = NoPagination
    /\ result = NoResult
    /\ panelRes = NewRes
    /\ pagesRequested = <<>>
    /\ lookups = <<>>
    /\ honest = TRUE
    /\ pageFailed = FALSE
    /\ reportedT = -1
    /\ truthful = TRUE

\* the handler of /listpanel after `await fetchAllServers()`
listpanelRespond(returned) ==
    /\ result' = returned
    /\ panelRes' =
          IF returned.k = "error"
          THEN ResJson(ResStatus(panelRes, 500),
                       ErrorBody(<<"Failed to fetch servers">>))
          ELSE ResSend(ResSetContentType(panelRes, "application/json"),
                       "[" \o StringifyServers(returned.list) \o "]")
    /\ aggPc' = "returned"

\* while (hasNextPage): request the page p, or return the list acc
LoopHead(more, p, acc) ==
    IF more
    THEN /\ p <= PageCap
         /\ pagesRequested' = Append(pagesRequested, p)
         /\ aggPc' = "page"
         /\ UNCHANGED <<result, panelRes>>
    ELSE /\ listpanelRespond([k |-> "list", list |-> acc])
         /\ UNCHANGED pagesRequested

\* a variant of HasNext: the last page is taken to have a successor
HasNext_OrEqual(pagination) ==
    pagination.current_page <= pagination.total_pages

\* current_page < total_pages
HasNext(pagination) == pagination.current_page < pagination.total_pages

\* a variant of EndOfPage: the page number is not advanced
EndOfPage_NoIncrement(pagination, acc) ==
    /\ hasNextPage' = HasNext(pagination)
    /\ page' = page
    /\ LoopHead(HasNext(pagination), page, acc)

\* the end of the for-of loop: hasNextPage = ..., page++, then the loop test
EndOfPage(pagination, acc) ==
    /\ hasNextPage' = HasNext(pagination)
    /\ page' = page + 1
    /\ LoopHead(HasNext(pagination), page + 1, acc)

\* GET /listpanel: fetchAllServers up to its first await
listpanel ==
    /\ aggPc = "idle"
    /\ allServers' = <<>>
    /\ page' = 1
    /\ hasNextPage' = TRUE
    /\ LoopHead(TRUE, 1, <<>>)
    /\ nreq < MaxRequests
    /\ nreq' = nreq + 1
    /\ UNCHANGED <<listing, servers, idx, meta, lookups, honest, pageFailed,
                   reportedT, truthful, cache, now, ticks, pc, rq, res,
                   regionVars, miscVars>>

\* the page request is answered, with the pagination the panel reports
pageResolved(pagination) ==
    /\ aggPc = "page"
    /\ meta' = pagination
    /\ honest' = (honest /\ pagination.current_page = page
                         /\ pagination.total_pages = Len(listing))
    /\ reportedT' = IF page = 1 THEN pagination.total_pages ELSE reportedT
    /\ truthful' = (truthful /\ pagination.current_page = page
                             /\ pagination.total_pages = reportedT')
    /\ servers' = PageData(page)
    /\ IF PageData(page) = <<>>
       THEN /\ EndOfPage(pagination, allServers)
            /\ UNCHANGED <<idx, allServers>>
       ELSE /\ idx' = 1
            /\ aggPc' = "user"
            /\ UNCHANGED <<page, hasNextPage, allServers, result, panelRes,
                           pagesRequested>>
    /\ UNCHANGED <<listing, lookups, pageFailed, proxyVars, regionVars, miscVars>>

\* a variant of CatchResult: what was collected so far is returned
CatchResult_Partial(acc) == [k |-> "list", list |-> acc]

\* catch (error) { return { error: 'Failed to fetch servers' } }
CatchResult(acc) == [k |-> "error", list |-> <<>>]

\* the page request fails: the catch of fetchAllServers
pageRejected ==
    /\ aggPc = "page"
    /\ listpanelRespond(CatchResult(allServers))
    /\ pageFailed' = TRUE
    /\ UNCHANGED <<listing, page, hasNextPage, allServers, servers, idx, meta,
                   pagesRequested, lookups, honest, reportedT, truthful,
                   proxyVars, regionVars, miscVars>>

\* the user lookup of servers[idx] ends, well (ok) or not
userSettled(ok) ==
    /\ aggPc = "user"
    /\ LET s == servers[idx]
           acc == Append(allServers, ServerRecord(s, fetchUserDetails(s.user, ok)))
       IN  /\ allServers' = acc
           /\ lookups' = Append(lookups, IF ok THEN "ok" ELSE "failed")
           /\ IF idx < Len(servers)
              THEN /\ idx' = idx + 1
                   /\ UNCHANGED <<aggPc, page, hasNextPage, result, panelRes,
                                  pagesRequested>>
              ELSE /\ EndOfPage(meta, acc)
                   /\ UNCHANGED idx
    /\ UNCHANGED <<listing, servers, meta, honest, pageFailed, reportedT, truthful,
                   proxyVars, regionVars, miscVars>>

PageResponds == \E pagination \in Paginations : pageResolved(pagination)

PageFails == pageRejected

UserLookupResponds == userSettled(TRUE)

UserLookupFails == userSettled(FALSE)

----------------------------------------------------------------------------
(* GET /api/v1/icon and GET /status *)

IconIds == { Undefined, Str(<<>>), Str(<<"1">>) }

IconUrl(id) == <<ICON_BASE_URL>> \o Interpolate(id) \o <<".png">>

\* the body of a /status response; uptime, memory and timestamp are left out
StatusBody ==
    [k |-> "status", text |-> "OK", error |-> <<>>,
     details |-> "API is running smoothly"]

IconIdle ==
    /\ iconPc = "idle"
    /\ iconId = Undefined
    /\ iconRes = NewRes
    /\ statusRes = NewRes

\* GET /api/v1/icon up to `await axios.get(iconUrl, ...)`
icon ==
    /\ iconPc # "awaiting"
    /\ nreq < MaxRequests
    /\ nreq' = nreq + 1
    /\ \E id \in IconIds :
          /\ iconId' = id
          /\ IF Not(id)
             THEN /\ iconRes' = ResJson(ResStatus(NewRes, 400),
                            ErrorBody(<<"Please provide an ", "\"id\"",
                                        " parameter.">>))
                  /\ iconPc' = "done"
             ELSE /\ iconRes' = NewRes
                  /\ iconPc' = "awaiting"
    /\ UNCHANGED <<cache, now, ticks, pc, rq, res, statusRes, greq, gres, kin,
                   kout, regionVars, aggVars>>

\* a variant of iconResolved: the bytes are also kept in the cache
iconResolved_Cached ==
    /\ iconPc = "awaiting"
    /\ iconRes' = ResSend(ResSetContentType(iconRes, "image/png"), "png bytes")
    /\ iconPc' = "done"
    /\ cache' = CachePut(cache, IconUrl(iconId), "png bytes", CACHE_DURATION, now)
    /\ UNCHANGED <<now, ticks, nreq, pc, rq, res, iconId, statusRes, greq, gres,
                   kin, kout, regionVars, aggVars>>

\* the icon host answers: the bytes are sent as image/png
iconResolved ==
    /\ iconPc = "awaiting"
    /\ iconRes' = ResSend(ResSetContentType(iconRes, "image/png"), "png bytes")
    /\ iconPc' = "done"
    /\ UNCHANGED <<proxyVars, iconId, statusRes, greq, gres, kin, kout,
                   regionVars, aggVars>>

\* axios.get throws: the catch block of the icon handler
iconRejected ==
    /\ iconPc = "awaiting"
    /\ iconRes' = ResJson(ResStatus(iconRes, 404), ErrorBody(<<"Not GET Icon">>))
    /\ iconPc' = "done"
    /\ UNCHANGED <<proxyVars, iconId, statusRes, greq, gres, kin, kout,
                   regionVars, aggVars>>

\* GET /status
status ==
    /\ nreq < MaxRequests
    /\ nreq' = nreq + 1
    /\ statusRes' = ResJson(NewRes, StatusBody)
    /\ UNCHANGED <<cache, now, ticks, pc, rq, res, iconPc, iconId, iconRes,
                   greq, gres, kin, kout, regionVars, aggVars>>

----------------------------------------------------------------------------
(* The middleware chain: cors, the guard of /index.js, express.static, routes *)

Methods == {"GET", "HEAD", "POST", "OPTIONS"}

Paths ==
    {"/index.js", "/", "/index.html", "/style.css", "/listpanel", "/status",
     "/api/v1/icon", "/api/v1/account", "/api/v1/guildInfo", "/missing"}

\* files that the directory public/ may hold
PublicCandidates == {"/index.html", "/index.js", "/style.css"}

\* the paths of the app.get routes
RoutePaths ==
    {"/", "/listpanel", "/api/v1/icon", "/api/v1/account",
     "/api/v1/craftlandProfile", "/api/v1/craftlandInfo", "/api/v1/playerstats",
     "/api/v1/wishlistitems", "/api/v1/guildInfo", "/status"}

NoAnswer == [by |-> "none", status |-> 0]

GuardIdle ==
    /\ greq = [method |-> "", path |-> "", public |-> {}]
    /\ gres = NoAnswer

\* a variant of IsForbiddenPath: the guard names the file by its directory
IsForbiddenPath_Src(path) == path = "/src/index.js"

\* req.path === '/index.js'
IsForbiddenPath(path) == path = "/index.js"

\* app.get routes, then express's 404; a route answers with its own status
router(req) ==
    IF req.method \in {"GET", "HEAD"} /\ req.path \in RoutePaths
    THEN [by |-> "route", status |-> 0]
    ELSE [by |-> "finalhandler", status |-> 404]

\* express.static("public"): a file of public/ is served to GET and HEAD,
\* "/" stands for index.html; anything else goes on
static(req) ==
    LET file == IF req.path = "/" THEN "/index.html" ELSE req.path
    IN  IF req.method \in {"GET", "HEAD"} /\ file \in req.public
        THEN [by |-> "static", status |-> 200]
        ELSE router(req)

\* if (req.path === '/index.js') res.status(403).send('Forbidden') else next()
guard(req) ==
    IF IsForbiddenPath(req.path)
    THEN [by |-> "guard", status |-> 403]
    ELSE static(req)

\* cors({...}): a preflight (OPTIONS) is answered 204 by the middleware
\* itself, any other method goes on to the next middleware
cors(req) ==
    IF req.method = "OPTIONS"
    THEN [by |-> "cors", status |-> 204]
    ELSE guard(req)

\* one request passes down the chain
dispatch ==
    /\ gres = NoAnswer
    /\ gres' = cors(greq)
    /\ UNCHANGED <<proxyVars, regionVars, aggVars, iconPc, iconId, iconRes,
                   statusRes, greq, kin, kout>>

KeyIdle ==
    /\ kin = <<>>
    /\ kout = <<>>

----------------------------------------------------------------------------
(* The proxy *)

ProxyInit ==
    /\ cache = EmptyCache
    /\ now = 0
    /\ ticks = 0
    /\ nreq = 0
    /\ pc = [r \in Slots |-> "idle"]
    /\ rq = [r \in Slots |-> IdleRequest]
    /\ res = [r \in Slots |-> NewRes]

Init ==
    /\ ProxyInit
    /\ input = Undefined
    /\ output = "none"
    /\ listing = <<>>
    /\ AggIdle
    /\ IconIdle
    /\ GuardIdle
    /\ KeyIdle

Next ==
    \/ account
    \/ craftlandProfile
    \/ craftlandInfo
    \/ playerstats
    \/ wishlistitems
    \/ guildInfo
    \/ UpstreamResponds
    \/ UpstreamFails
    \/ Tick

Spec == Init /\ [][Next]_vars

----------------------------------------------------------------------------
(* isValidRegion as a function of its argument *)

RegionAlphabet ==
    {"I", "i", "u0131", "N", "n", "D", "d", "S", "s", "u017F", "u00DF", "X", "1"}

StringsUpTo(n) == UNION { [1..k -> RegionAlphabet] : k \in 0..n }

\* the same letter in either case
SameLetter(a, b) ==
    \/ a = b
    \/ \E i \in 1..Len(LowerLetters) :
          {a, b} = {LowerLetters[i], UpperLetters[i]}

CaseVariant(s, code) ==
    /\ Len(s) = Len(code)
    /\ \A i \in 1..Len(code) : SameLetter(s[i], code[i])

Letters == {LowerLetters[i] : i \in 1..Len(LowerLetters)}
              \cup {UpperLetters[i] : i \in 1..Len(UpperLetters)}

\* every spelling of every supported code, in any combination of cases
CaseVariants ==
    UNION { { s \in [1..Len(supportedRegions[i]) -> Letters] :
                CaseVariant(s, supportedRegions[i]) }
            : i \in 1..Len(supportedRegions) }

IsSupportedSpelling(s) ==
    \E i \in 1..Len(supportedRegions) : CaseVariant(s, supportedRegions[i])

RegionInit ==
    /\ ProxyInit
    /\ input \in { Str(s) : s \in StringsUpTo(MaxLen) \cup CaseVariants }
    /\ output = "none"
    /\ listing = <<>>
    /\ AggIdle
    /\ IconIdle
    /\ GuardIdle
    /\ KeyIdle

CallIsValidRegion ==
    /\ output = "none"
    /\ output' = IF isValidRegion(input) THEN "true" ELSE "false"
    /\ UNCHANGED <<proxyVars, input, aggVars, miscVars>>

RegionNext == CallIsValidRegion

SpecRegion == RegionInit /\ [][RegionNext]_vars

----------------------------------------------------------------------------
(* The aggregator *)

AggInit ==
    /\ ProxyInit
    /\ input = Undefined
    /\ output = "none"
    /\ listing \in Listings
    /\ AggIdle
    /\ IconIdle
    /\ GuardIdle
    /\ KeyIdle

AggNext ==
    \/ listpanel
    \/ PageResponds
    \/ PageFails
    \/ UserLookupResponds
    \/ UserLookupFails

SpecAgg == AggInit /\ [][AggNext]_vars

----------------------------------------------------------------------------
(* The middleware chain, for every method, path and content of public/ *)

GuardInit ==
    /\ ProxyInit
    /\ input = Undefined
    /\ output = "none"
    /\ listing = <<>>
    /\ AggIdle
    /\ IconIdle
    /\ KeyIdle
    /\ greq \in [method : Methods, path : Paths, public : SUBSET PublicCandidates]
    /\ gres = NoAnswer

GuardNext == dispatch

SpecGuard == GuardInit /\ [][GuardNext]_vars

----------------------------------------------------------------------------
(* Properties of the proxy *)

Routes ==
    {"account", "craftlandProfile", "craftlandInfo", "playerstats",
     "wishlistitems", "guildInfo"}

\* the second identifying parameter of each region-scoped route
SecondParamOf(route) ==
    CASE route = "craftlandInfo" -> "map_code"
      [] route = "guildInfo" -> "guildID"
      [] OTHER -> "uid"

\* slot r holds a request that entered fetchFromApi
Proxied(r) == pc[r] # "idle" /\ rq[r].called

\* at its lookup, the key of r held an entry stored less than 24 hours before
SawUnexpired(r) ==
    /\ Proxied(r)
    /\ rq[r].seen.present
    /\ rq[r].at < rq[r].seen.storedAt + Day

\* at its lookup, the key of r held an entry stored 24 hours or more before
SawExpired(r) ==
    /\ Proxied(r)
    /\ rq[r].seen.present
    /\ rq[r].at >= rq[r].seen.storedAt + Day

\* C1: a proxy request whose key holds an unexpired entry at lookup time
\* issues no outbound call and answers at once with exactly the stored string.
C1_CachedServedVerbatim ==
    \A r \in Slots :
        SawUnexpired(r) =>
            /\ rq[r].outbound = 0
            /\ pc[r] = "done"
            /\ res[r].sent = 1
            /\ res[r].body = TextBody(rq[r].seen.value)

C1_Witness ==
    \E r \in Slots :
        /\ SawUnexpired(r)
        /\ pc[r] = "done"
        /\ nreq >= 2
        /\ rq[r].at > 0

\* C2: an entry is served only while now < storedAt + 24h; a request whose
\* entry was stored 24 hours or more ago makes an outbound call, and when the
\* upstream body is not empty the fresh body is stored with a new 24-hour TTL.
C2_VisibleOnlyWithinTtl ==
    \A r \in Slots :
        /\ Proxied(r) /\ rq[r].outbound = 0 => SawUnexpired(r)
        /\ SawExpired(r) => rq[r].outbound = 1

C2_FreshStore ==
    \A r \in Slots :
        (SawExpired(r) /\ pc[r] = "awaiting" /\ pc'[r] = "done"
            /\ res'[r].status = 200) =>
            /\ rq[r].cacheKey \in DOMAIN cache'
            /\ cache'[rq[r].cacheKey] =
                  [value |-> res'[r].body.text, storedAt |-> now, ttl |-> Day]

C2_ExpiredIsAbsent == [] C2_VisibleOnlyWithinTtl /\ [][C2_FreshStore]_vars

C2_Witness ==
    \E r \in Slots :
        /\ SawExpired(r)
        /\ pc[r] = "done"
        /\ res[r].status = 200
        /\ rq[r].outbound = 1
        /\ rq[r].cacheKey \in DOMAIN cache
        /\ cache[rq[r].cacheKey].storedAt >= Day

Missing(v) == v = Undefined \/ v = Str(<<>>)

\* C3: on each of the six routes a request whose region or second parameter
\* is missing or empty gets status 400 with a message naming both fields and
\* never enters fetchFromApi.
C3_MissingParameters ==
    \A r \in Slots :
        (pc[r] # "idle" /\ rq[r].route \in Routes
            /\ (Missing(rq[r].region) \/ Missing(rq[r].second))) =>
            /\ pc[r] = "done"
            /\ res[r].sent = 1
            /\ res[r].status = 400
            /\ res[r].body.k = "error"
            /\ includes(res[r].body.error, "\"region\"")
            /\ includes(res[r].body.error,
                        "\"" \o SecondParamOf(rq[r].route) \o "\"")
            /\ ~rq[r].called
            /\ rq[r].outbound = 0

C3_Witness ==
    \E r \in Slots :
        /\ pc[r] = "done"
        /\ rq[r].route = "craftlandInfo"
        /\ rq[r].region = Str(IND)
        /\ rq[r].second = Str(<<>>)
        /\ res[r].status = 400
        /\ DOMAIN cache # {}

\* C4: isValidRegion is true exactly for the spellings of the 13 supported
\* codes in any combination of letter cases.
C4_ExactlySupported ==
    output # "none" => (output = "true" <=> IsSupportedSpelling(input.s))

\* s holds code as a contiguous run
ContainsRun(s, code) ==
    \E i \in 0..(Len(s) - Len(code)) :
        \A j \in 1..Len(code) : s[i + j] = code[j]

\* C5: with both parameters present and a region string that is not in the
\* supported list after upper-casing, the answer is status 400 with a message
\* listing every supported code, and fetchFromApi is not entered.
C5_UnsupportedRegion ==
    \A r \in Slots :
        (pc[r] # "idle" /\ rq[r].route \in Routes
            /\ ~Missing(rq[r].region) /\ ~Missing(rq[r].second)
            /\ rq[r].region.t = "string"
            /\ ~includes(supportedRegions, toUpperCase(rq[r].region.s))) =>
            /\ pc[r] = "done"
            /\ res[r].sent = 1
            /\ res[r].status = 400
            /\ res[r].body.k = "error"
            /\ \A i \in 1..Len(supportedRegions) :
                  ContainsRun(res[r].body.error, supportedRegions[i])
            /\ ~rq[r].called
            /\ rq[r].outbound = 0

C5_Witness ==
    \E r \in Slots :
        /\ pc[r] = "done"
        /\ rq[r].route = "playerstats"
        /\ rq[r].region = Str(<<"X","X">>)
        /\ rq[r].second = Str(<<"1">>)
        /\ res[r].status = 400

\* an upstream body that is falsy, or an object or array without keys
IsEmptyBody(d) ==
    d \in {JNull, JEmptyStr, JNum(0), JEmptyObj, JEmptyArr}

\* C6: a cache miss whose upstream body is empty is answered with status 429
\* and the fixed rate-limit message.
C6_EmptyBodyIs429 ==
    \A r \in Slots :
        (pc[r] = "done" /\ rq[r].outcome.k = "data"
            /\ IsEmptyBody(rq[r].outcome.data)) =>
            /\ res[r].sent = 1
            /\ res[r].status = 429
            /\ res[r].body =
                  ErrorBody(<<"API limit has been reached. The limit will reset in 1-2 hours.">>)

C6_Witness ==
    \E r \in Slots :
        /\ pc[r] = "done"
        /\ rq[r].outcome.k = "data"
        /\ rq[r].outcome.data = JEmptyArr
        /\ res[r].status = 429

\* C7: when the outbound call fails, the status is the upstream's status if
\* the failure carries a response and 500 otherwise, and the body is
\* {error: 'Failed to fetch data', details: <message>}.
C7_TransportFailure ==
    \A r \in Slots :
        (pc[r] = "done" /\ rq[r].outcome.k = "error") =>
            /\ res[r].sent = 1
            /\ rq[r].outcome.error.response =>
                  res[r].status = rq[r].outcome.error.status
            /\ ~rq[r].outcome.error.response => res[r].status = 500
            /\ res[r].body.k = "errorDetails"
            /\ res[r].body.error = <<"Failed to fetch data">>
            /\ res[r].body.details = rq[r].outcome.error.message

C7_Witness ==
    \E r \in Slots :
        /\ pc[r] = "done"
        /\ rq[r].outcome.k = "error"
        /\ rq[r].outcome.error.response
        /\ res[r].status = 404

\* C8: every status-200 response of the proxy carries the JSON content type,
\* whether the body was fetched or served from the cache.
C8_Json200 ==
    \A r \in Slots :
        (Proxied(r) /\ pc[r] = "done" /\ res[r].status = 200) =>
            res[r].ctype = "application/json"

----------------------------------------------------------------------------
(* Properties of the aggregator *)

RECURSIVE ItemsOfPages(_)
\* the items of pages 1..n of the listing, as <<page, position>>, in order
ItemsOfPages(n) ==
    IF n = 0 THEN <<>>
    ELSE ItemsOfPages(n - 1) \o
            (IF n <= Len(listing)
             THEN [i \in 1..Len(listing[n]) |-> <<n, i>>]
             ELSE <<>>)

\* record rec is the record of the item at position it[2] of page it[1]
RecordOf(rec, it) ==
    /\ rec.id = 10 * it[1] + it[2]
    /\ rec.user_id = listing[it[1]][it[2]]

\* list holds exactly the records of the items of pages 1..n, in order
HoldsPages(list, n) ==
    /\ Len(list) = Len(ItemsOfPages(n))
    /\ \A k \in 1..Len(list) : RecordOf(list[k], ItemsOfPages(n)[k])

\* C9: when no page request fails, fetchAllServers returns a list with exactly
\* one record per item of the pages it requested, by page and then position;
\* the pages requested are 1, 2, ... and, when the panel reports its pagination
\* truthfully, they are all the pages of the listing.
C9_OneRecordPerItem ==
    (aggPc = "returned" /\ ~pageFailed) =>
        /\ result.k = "list"
        /\ pagesRequested = [i \in 1..Len(pagesRequested) |-> i]
        /\ HoldsPages(result.list, Len(pagesRequested))
        /\ honest => Len(pagesRequested) = Len(listing)

C9_Witness ==
    /\ aggPc = "returned"
    /\ ~pageFailed
    /\ honest
    /\ Len(listing) = 2
    /\ Len(listing[1]) = 1
    /\ Len(listing[2]) = 1
    /\ Len(result.list) = 2
    /\ result.list[1].id = 11
    /\ result.list[2].id = 21

\* C10: a failed user lookup does not fail the aggregation: the record of the
\* item is pushed at its position with username and email 'Unknown', the
\* other records carry their owner's attributes, and the list is returned.
C10_LookupFailureIsPlaceholder ==
    /\ Len(lookups) = Len(allServers)
    /\ Len(allServers) <= Len(ItemsOfPages(Len(pagesRequested)))
    /\ \A k \in 1..Len(allServers) :
          /\ RecordOf(allServers[k], ItemsOfPages(Len(pagesRequested))[k])
          /\ lookups[k] = "failed" =>
                /\ allServers[k].username = "Unknown"
                /\ allServers[k].email = "Unknown"
          /\ lookups[k] = "ok" =>
                /\ allServers[k].username = UserAttributes(allServers[k].user_id).username
                /\ allServers[k].email = UserAttributes(allServers[k].user_id).email
    /\ (aggPc = "returned" /\ ~pageFailed) =>
          /\ result = [k |-> "list", list |-> allServers]
          /\ panelRes.status = 200

C10_Witness ==
    /\ aggPc = "returned"
    /\ result.k = "list"
    /\ Len(result.list) >= 3
    /\ lookups[1] = "ok"
    /\ lookups[2] = "failed"
    /\ lookups[3] = "ok"
    /\ result.list[2].username = "Unknown"

\* C11: when the request of any page fails, the first or a later one,
\* fetchAllServers returns the error object and no list, whatever was collected
\* before, and /listpanel answers 500 with the error body, once.
C11_PageFailureIsError ==
    pageFailed =>
        /\ aggPc = "returned"
        /\ result.k = "error"
        /\ result.list = <<>>
        /\ panelRes.sent = 1
        /\ panelRes.status = 500
        /\ panelRes.body = ErrorBody(<<"Failed to fetch servers">>)

\* a later page failed after records of an earlier page had been collected
C11_Witness ==
    /\ pageFailed
    /\ Len(pagesRequested) >= 2
    /\ Len(allServers) >= 1
    /\ panelRes.status = 500

\* C12: a proxy request whose lookup found no unexpired entry calls the
\* upstream exactly once, whether the call is pending, answered or failed, and
\* whatever other requests are in flight: requests for one key that all look
\* up before any of them stores are each awaiting a call of their own.
C12_OneCallPerMiss ==
    \A r \in Slots :
        (Proxied(r) /\ ~SawUnexpired(r)) =>
            /\ rq[r].outbound = 1
            /\ pc[r] = "awaiting" <=> rq[r].outcome.k = "none"
            /\ pc[r] = "done" <=> rq[r].outcome.k \in {"data", "error"}

\* two requests for the same key, both past a lookup that missed, each with
\* its own call pending and nothing stored yet
C12_Witness ==
    \E r, q \in Slots :
        /\ r # q
        /\ pc[r] = "awaiting" /\ pc[q] = "awaiting"
        /\ rq[r].cacheKey = rq[q].cacheKey
        /\ rq[r].cacheKey \notin DOMAIN cache
        /\ rq[r].outbound = 1 /\ rq[q].outbound = 1

----------------------------------------------------------------------------
(* Properties of the middleware chain *)

\* C13 as stated: a request whose path is /index.js is answered 403 by the
\* guard, whatever its method, and reaches neither express.static nor a route.
C13_IndexJsAlways403 ==
    (greq.path = "/index.js" /\ gres # NoAnswer) =>
        /\ gres.by = "guard"
        /\ gres.status = 403

\* C13, amended: a request for /index.js never reaches express.static or a
\* route, even when public/ holds an index.js; it is answered 403 by the guard
\* unless its method is OPTIONS, which the cors middleware, registered before
\* the guard, answers with 204.
C13_IndexJsNeverServed ==
    (greq.path = "/index.js" /\ gres # NoAnswer) =>
        /\ gres.by \in {"guard", "cors"}
        /\ greq.method # "OPTIONS" => (gres.by = "guard" /\ gres.status = 403)
        /\ greq.method = "OPTIONS" => (gres.by = "cors" /\ gres.status = 204)

\* GET /index.js while public/ holds an index.js: answered by the guard
C13_Witness ==
    /\ greq.path = "/index.js"
    /\ greq.method = "GET"
    /\ "/index.js" \in greq.public
    /\ gres.by = "guard"
    /\ gres.status = 403

----------------------------------------------------------------------------
(* Properties of the proxy under concurrent requests *)

\* in this step the request of slot r stores the body it fetched
Stores(r) ==
    /\ pc[r] = "awaiting"
    /\ pc'[r] = "done"
    /\ rq'[r].outcome.k = "data"
    /\ res'[r].status = 200

\* C14 as stated: no cache.put replaces an entry that is still unexpired.
C14_NoUnexpiredReplaced ==
    [][\A r \in Slots :
          Stores(r) => ~CacheVisible(cache, rq[r].cacheKey, now)]_vars

C14_StoreAfterMiss ==
    /\ \A r \in Slots :
          Stores(r) =>
              /\ ~SawUnexpired(r)
              /\ rq[r].cacheKey \in DOMAIN cache'
              /\ CacheVisible(cache, rq[r].cacheKey, now) =>
                    cache[rq[r].cacheKey].storedAt >= rq[r].at
    /\ \A key \in DOMAIN cache' :
          (key \notin DOMAIN cache \/ cache'[key] # cache[key]) =>
              \E r \in Slots : Stores(r) /\ rq[r].cacheKey = key

\* C14, amended: an entry is created or overwritten only by a request whose
\* own lookup found no unexpired entry under the key.  With concurrent
\* requests for one key the put can replace an entry that is still unexpired:
\* one that another request stored after this request's lookup.
C14_OverwriteOnlyAfterMiss == [][C14_StoreAfterMiss]_vars

\* a request whose lookup found nothing has replaced an unexpired entry
C14_Witness ==
    \E r \in Slots :
        /\ pc[r] = "done"
        /\ rq[r].outcome.k = "data"
        /\ res[r].status = 200
        /\ ~rq[r].seen.present
        /\ rq[r].outcome.before.present
        /\ rq[r].outcome.before.unexpired

C15_OwnBodyStoredAndSent ==
    \A r \in Slots :
        Stores(r) =>
            LET own == Stringify(rq'[r].outcome.data)
            IN  /\ res'[r].sent = 1
                /\ res'[r].body = TextBody(own)
                /\ rq[r].cacheKey \in DOMAIN cache'
                /\ cache'[rq[r].cacheKey] =
                      [value |-> own, storedAt |-> now, ttl |-> Day]

\* C15: when several successful fetches for one key complete, each store
\* replaces what is there: after each the cache holds the body of the request
\* that has just completed, with the 24 hours counted from that store, and each
\* request answers with the body of its own fetch.
C15_LastWriterWins == [][C15_OwnBodyStoredAndSent]_vars

\* a request has replaced the unexpired body of a concurrent request by a
\* different body of its own, at a later time
C15_Witness ==
    \E r \in Slots :
        /\ pc[r] = "done"
        /\ rq[r].outcome.k = "data"
        /\ res[r].status = 200
        /\ ~rq[r].seen.present
        /\ rq[r].outcome.before.unexpired
        /\ rq[r].outcome.before.value # res[r].body.text
        /\ cache[rq[r].cacheKey].value = res[r].body.text
        /\ cache[rq[r].cacheKey].storedAt > rq[r].outcome.before.storedAt

----------------------------------------------------------------------------
(* Properties of the pagination loop *)

MaxOf(a, b) == IF a >= b THEN a ELSE b

\* the pages requested so far are 1, 2, ..., n in this order
C16_InOrder ==
    \A i \in 1..Len(pagesRequested) : pagesRequested[i] = i

\* while every answer so far reported the page requested and the same total T,
\* no page beyond max(1, T) has been requested; when the loop has ended that
\* way, the pages 1..max(1, T) were requested and the list collected is returned
C16_FixedTotal ==
    (truthful /\ reportedT # -1) =>
        /\ Len(pagesRequested) <= MaxOf(1, reportedT)
        /\ (aggPc = "returned" /\ ~pageFailed) =>
              /\ Len(pagesRequested) = MaxOf(1, reportedT)
              /\ result = [k |-> "list", list |-> allServers]
              /\ panelRes.sent = 1
              /\ panelRes.status = 200

\* at the end of page p: page p + 1 is requested exactly when the answer for
\* page p reported current_page < total_pages, otherwise the list is returned
C16_NextPageRule ==
    (aggPc \in {"page", "user"} /\ page' = page + 1) =>
        IF meta'.current_page < meta'.total_pages
        THEN /\ aggPc' = "page"
             /\ pagesRequested' = Append(pagesRequested, page + 1)
        ELSE /\ aggPc' = "returned"
             /\ pagesRequested' = pagesRequested
             /\ result' = [k |-> "list", list |-> allServers']

\* C16: fetchAllServers requests page 1 first and page p + 1 exactly when the
\* answer for page p reports current_page < total_pages; against a panel that
\* reports current_page = the page requested and a fixed total T it requests
\* the pages 1..max(1, T) once each, in increasing order, and returns the list.
C16_Pagination ==
    [] (C16_InOrder /\ C16_FixedTotal) /\ [][C16_NextPageRule]_vars

\* a panel reporting a fixed total of 2 has been asked for pages 1 and 2 and
\* the list of both pages has been returned
C16_Witness ==
    /\ truthful
    /\ reportedT = 2
    /\ aggPc = "returned"
    /\ pagesRequested = <<1, 2>>
    /\ result.k = "list"
    /\ Len(result.list) >= 2

----------------------------------------------------------------------------
(* The cache key and the upstream URL as functions of the request *)

KeyRegions ==
    { Str(IND), Str(<<"i","n","d">>), Str(<<"I","D">>), Str(<<"X","X">>) }

KeySeconds ==
    { Str(<<"1">>), Str(<<"2">>), Str(<<"1","-","2">>), Str(<<"D","-","1">>),
      Str(<<"1",",","2">>), Arr(<< <<"1">>, <<"2">> >>) }

KeyRequests == [route : Routes, region : KeyRegions, second : KeySeconds]

\* what a handler hands to fetchFromApi for the request q, if q is validated
KeyOf(q) ==
    IF Not(q.region) \/ Not(q.second) \/ ThrowsTypeError(q.region)
          \/ ~isValidRegion(q.region)
    THEN [ok |-> FALSE, key |-> <<>>, url |-> <<>>]
    ELSE [ok |-> TRUE,
          key |-> CacheKey(q.route, q.region, q.second),
          url |-> UpstreamUrl(q.route, SecondParamOf(q.route), q.region, q.second)]

KeyInit ==
    /\ ProxyInit
    /\ input = Undefined
    /\ output = "none"
    /\ listing = <<>>
    /\ AggIdle
    /\ IconIdle
    /\ GuardIdle
    /\ kin \in KeyRequests \X KeyRequests
    /\ kout = <<>>

buildKeys ==
    /\ kout = <<>>
    /\ kout' = <<KeyOf(kin[1]), KeyOf(kin[2])>>
    /\ UNCHANGED <<proxyVars, regionVars, aggVars, iconPc, iconId, iconRes,
                   statusRes, greq, gres, kin>>

KeyNext == buildKeys

SpecKey == KeyInit /\ [][KeyNext]_vars

\* C17: for validated requests the cache key is a function of the endpoint,
\* the region string as given and the identifier as it is put into the URL,
\* and two requests have the same key only when all three are the same; two
\* requests with the same key therefore have the same upstream URL, so a body
\* found under a key was fetched from the URL of that very request.
C17_KeyDeterminesRequest ==
    (kout # <<>> /\ kout[1].ok /\ kout[2].ok) =>
        /\ kout[1].key = kout[2].key <=>
              /\ kin[1].route = kin[2].route
              /\ kin[1].region = kin[2].region
              /\ Interpolate(kin[1].second) = Interpolate(kin[2].second)
        /\ kout[1].key = kout[2].key => kout[1].url = kout[2].url
        /\ kout[1].url = kout[2].url => kout[1].key = kout[2].key

\* two requests that differ (uid given twice, uid given once as "1,2") have
\* the same key and the same upstream URL
C17_Witness ==
    /\ kout # <<>>
    /\ kout[1].ok /\ kout[2].ok
    /\ kin[1] # kin[2]
    /\ kout[1].key = kout[2].key
    /\ kout[1].url = kout[2].url

----------------------------------------------------------------------------
(* All the routes that make outbound calls or answer by themselves, side by *)
(* side at one instant, against a panel whose listing is empty              *)

ServerNext ==
    \/ account
    \/ craftlandProfile
    \/ craftlandInfo
    \/ playerstats
    \/ wishlistitems
    \/ guildInfo
    \/ UpstreamResponds
    \/ UpstreamFails
    \/ icon
    \/ iconResolved
    \/ iconRejected
    \/ status
    \/ listpanel
    \/ PageResponds
    \/ PageFails

SpecServer == Init /\ [][ServerNext]_vars

\* the bodies that fetchFromApi stores: the serialisations of non-empty data
StorableBodies ==
    { Stringify(d) : d \in { e \in UpstreamData :
                                ~Falsy(e) /\ ObjectKeysLength(e) > 0 } }

\* every cached value is a serialised non-empty body, and what a request is
\* given from the cache is such a body with status 200, never an error
C18_OnlyBodiesCached ==
    /\ \A key \in DOMAIN cache :
          /\ cache[key].value \in StorableBodies
          /\ cache[key].value \notin {"", "null", "{}", "[]"}
    /\ \A r \in Slots :
          (Proxied(r) /\ rq[r].outbound = 0) =>
              /\ res[r].status = 200
              /\ res[r].body.k = "text"
              /\ res[r].body.text \in StorableBodies

\* slot r ends a request in this step
Finishes(r) == pc'[r] = "done" /\ (pc[r] # "done" \/ rq'[r] # rq[r])

C18_CacheFrame ==
    /\ \A key \in DOMAIN cache' :
          (key \notin DOMAIN cache \/ cache'[key] # cache[key]) =>
              \E r \in Slots :
                  /\ Stores(r)
                  /\ rq[r].cacheKey = key
                  /\ ~SawUnexpired(r)
                  /\ rq[r].outbound = 1
                  /\ ~Falsy(rq'[r].outcome.data)
                  /\ ObjectKeysLength(rq'[r].outcome.data) > 0
                  /\ cache'[key].value = Stringify(rq'[r].outcome.data)
    /\ \A key \in DOMAIN cache \ DOMAIN cache' : ~CacheVisible(cache, key, now)
    /\ \A r \in Slots :
          (Finishes(r) /\ (res'[r].status # 200 \/ rq'[r].outbound = 0)) =>
              cache' = cache
    /\ <<iconPc, iconId, iconRes, statusRes>>' # <<iconPc, iconId, iconRes, statusRes>>
          => cache' = cache
    /\ aggVars' # aggVars => cache' = cache

\* C18: the cache is written only by a proxy request that missed and got a
\* non-empty body.  Hits, 400s, 429s, failed upstream calls, /api/v1/icon,
\* /listpanel and /status leave it as it is; every cached value is a
\* serialised non-empty body, and no 429 or error is ever answered from it.
C18_CacheWrittenOnlyByStore == [] C18_OnlyBodiesCached /\ [][C18_CacheFrame]_vars

\* with a body in the cache, an icon request has been answered and the body
\* is still there
C18_Witness ==
    /\ cache # EmptyCache
    /\ iconPc = "done"
    /\ iconRes.status \in {200, 404}
    /\ \A key \in DOMAIN cache : cache[key].value \in StorableBodies

\* a response that reports a failure does it with a status and a JSON body
JsonError(r) ==
    r.status >= 400 =>
        /\ r.ctype = "application/json"
        /\ r.body.k \in {"error", "errorDetails"}

\* C19: every request to a proxy route, /api/v1/icon or /listpanel whose
\* outbound calls have all completed has been answered exactly once, and
\* every failure has been answered with a status and a JSON error body.
C19_OneJsonAnswer ==
    /\ \A r \in Slots :
          pc[r] = "done" => (res[r].sent = 1 /\ JsonError(res[r]))
    /\ iconPc = "done" => (iconRes.sent = 1 /\ JsonError(iconRes))
    /\ aggPc = "returned" => (panelRes.sent = 1 /\ JsonError(panelRes))

====
